---- MODULE Spec2Model ----
(***************************************************************************)
(* Structured error and request-observability core of go-backend-scaffold: *)
(* the status-code taxonomy (pkg/apperr/codes), the AppErr model (New,     *)
(* Wrap, errors.As), the error interceptor (handleError, IsServerError)    *)
(* and the structured logger (Logger.Error, Logger.log, fromContext).      *)
(*                                                                         *)
(* One request is followed: the handler's layers build an error by         *)
(* New / Wrap / fmt.Errorf over Go slices kept in an explicit heap of      *)
(* backing arrays, then the error interceptor converts the result into a   *)
(* transport error and writes to the logging sink.                         *)
(***************************************************************************)
EXTENDS Integers, Sequences, FiniteSets, TLC

VARIABLES
    heap,         \* backing arrays of every []slog.Attr, by array id
    callerSlice,  \* a []slog.Attr owned by the handler code, passed as s...
    built,        \* built[i]: the error value after the i-th layer of the handler
    ops,          \* ops[i]: the operation that produced built[i], with its inputs
    calls,        \* number of New/Wrap calls so far (one stack capture each)
    pc,           \* "handler": the handler is running; "done": the interceptor returned
    sink,         \* records written to the logging sink, in order
    out,          \* what the error interceptor returned: [resp, err]
    verdict,      \* the IsServerError call made by handleError: [called, code, result]
    minLevel,     \* minimum level of the logger's handler
    reqCtx,       \* request context: whether it carries a valid span
    req,          \* the request seen by the interceptor chain, and how its handler ended
    call,         \* the logger call under way or last made: its inputs and how it ended
    tasks         \* the requests in flight at once through the shared interceptors

vars == <<heap, callerSlice, built, ops, calls, pc, sink, out, verdict, minLevel, reqCtx,
          req, call, tasks>>

\* Layers of one error chain (base error, New, Wrap, fmt.Errorf), at most.
MaxLayers == 3

----------------------------------------------------------------------------
\* Status codes: pkg/apperr/codes (Code = connect.Code, a uint32).

Canceled == 1
Unknown == 2
InvalidArgument == 3
DeadlineExceeded == 4
NotFound == 5
AlreadyExists == 6
PermissionDenied == 7
ResourceExhausted == 8
FailedPrecondition == 9
Aborted == 10
OutOfRange == 11
Unimplemented == 12
Internal == 13
Unavailable == 14
DataLoss == 15
Unauthenticated == 16

\* The sixteen named codes, and two values of the type outside them.
NamedCodes == Canceled .. Unauthenticated
Codes == (Canceled - 1) .. (Unauthenticated + 1)

\* Code.String(): the snake_case name, "code_<n>" for a value with no name.
CodeString(c) ==
    CASE c = Canceled -> "canceled"
      [] c = Unknown -> "unknown"
      [] c = InvalidArgument -> "invalid_argument"
      [] c = DeadlineExceeded -> "deadline_exceeded"
      [] c = NotFound -> "not_found"
      [] c = AlreadyExists -> "already_exists"
      [] c = PermissionDenied -> "permission_denied"
      [] c = ResourceExhausted -> "resource_exhausted"
      [] c = FailedPrecondition -> "failed_precondition"
      [] c = Aborted -> "aborted"
      [] c = OutOfRange -> "out_of_range"
      [] c = Unimplemented -> "unimplemented"
      [] c = Internal -> "internal"
      [] c = Unavailable -> "unavailable"
      [] c = DataLoss -> "data_loss"
      [] c = Unauthenticated -> "unauthenticated"
      [] OTHER -> "code_" \o ToString(c)

\* IsServerError with the default branch returning false.
IsServerErrorDefaultClient(code) ==
    code \in {Internal, Unknown, DataLoss, Unavailable, Unimplemented}

\* IsServerError: the switch over the code.
IsServerError(code) ==
    CASE code \in {Internal, Unknown, DataLoss, Unavailable, Unimplemented} -> TRUE
      [] code \in {InvalidArgument, NotFound, AlreadyExists, PermissionDenied,
                   FailedPrecondition, OutOfRange, Unauthenticated, Canceled,
                   DeadlineExceeded, Aborted, ResourceExhausted} -> FALSE
      [] OTHER -> TRUE

----------------------------------------------------------------------------
\* Strings.

\* strings.Contains(s, t)
Contains(s, t) ==
    \E i \in 1 .. (Len(s) - Len(t) + 1) : SubSeq(s, i, i + Len(t) - 1) = t

LowerAlpha == "abcdefghijklmnopqrstuvwxyz"
UpperAlpha == "ABCDEFGHIJKLMNOPQRSTUVWXYZ"
\* The other bytes a header field name may hold (RFC 7230 token characters;
\* the apostrophe and the backquote, which no key of the model uses, are left out).
TokenOther == "0123456789!#$%&*+-.^_|~"

Chars(str) == {SubSeq(str, i, i) : i \in 1 .. Len(str)}

\* The bytes a header field name may hold.
HeaderFieldBytes == Chars(LowerAlpha) \cup Chars(UpperAlpha) \cup Chars(TokenOther)

\* ch + 'A' - 'a' for a lower-case letter, ch + 'a' - 'A' for an upper-case one.
ToUpper ==
    [ch \in Chars(LowerAlpha) |->
        LET i == CHOOSE j \in 1 .. Len(LowerAlpha) : SubSeq(LowerAlpha, j, j) = ch
        IN SubSeq(UpperAlpha, i, i)]
ToLower ==
    [ch \in Chars(UpperAlpha) |->
        LET i == CHOOSE j \in 1 .. Len(UpperAlpha) : SubSeq(UpperAlpha, j, j) = ch
        IN SubSeq(LowerAlpha, i, i)]

RECURSIVE CanonicalFrom(_, _, _)
CanonicalFrom(s, i, upper) ==
    IF i > Len(s) THEN ""
    ELSE LET ch == SubSeq(s, i, i)
             c2 == IF upper /\ ch \in DOMAIN ToUpper THEN ToUpper[ch]
                   ELSE IF ~upper /\ ch \in DOMAIN ToLower THEN ToLower[ch]
                   ELSE ch
         IN c2 \o CanonicalFrom(s, i + 1, ch = "-")

\* textproto.CanonicalMIMEHeaderKey, applied by http.Header.Set and Get: the first
\* letter and each letter after a hyphen in upper case, the rest in lower case; a
\* key holding a byte that is no header field byte is returned unchanged.
CanonicalMIMEHeaderKey(s) ==
    IF \E i \in 1 .. Len(s) : SubSeq(s, i, i) \notin HeaderFieldBytes
    THEN s
    ELSE CanonicalFrom(s, 1, TRUE)

----------------------------------------------------------------------------
\* Attributes and Go slices.

StackKey == "stacktrace"

Attr(k, v) == [Key |-> k, Value |-> v]

\* slog.String(k, s) and slog.Int(k, n)
SlogString(k, str) == Attr(k, [kind |-> "String", str |-> str])
SlogInt(k, n) == Attr(k, [kind |-> "Int64", num |-> n])

\* The zero slog.Attr, as in the unused cells of a backing array.
ZeroAttr == Attr("", [kind |-> "Any"])

\* Value.String(): the string of a String value, the decimal form of an Int64 value.
ValueString(v) ==
    CASE v.kind = "String" -> v.str
      [] v.kind = "Int64" -> ToString(v.num)
      [] OTHER -> "<nil>"

NilSlice == [arr |-> 0, len |-> 0]

Cap(h, s) == IF s.arr = 0 THEN 0 ELSE Len(h[s.arr])

\* The elements a slice shows: the first len cells of its backing array.
Elems(h, s) == IF s.arr = 0 THEN <<>> ELSE SubSeq(h[s.arr], 1, s.len)

\* Capacity of the array a full slice grows into (small slices double).
GrowCap(old, needed) == IF needed > 2 * old THEN needed ELSE 2 * old

\* append(s, xs...): writes into the spare capacity of the backing array of s when
\* the elements fit, and copies into a new, larger array when they do not.
GoAppend(h, s, xs) ==
    LET n == s.len + Len(xs) IN
    IF Len(xs) = 0 THEN [heap |-> h, slice |-> s]
    ELSE IF n <= Cap(h, s)
    THEN [heap |-> [h EXCEPT ![s.arr] =
                      [i \in 1 .. Len(@) |->
                          IF i > s.len /\ i <= n THEN xs[i - s.len] ELSE @[i]]],
          slice |-> [arr |-> s.arr, len |-> n]]
    ELSE LET c == GrowCap(Cap(h, s), n)
             arr == [i \in 1 .. c |->
                       IF i <= s.len THEN h[s.arr][i]
                       ELSE IF i <= n THEN xs[i - s.len]
                       ELSE ZeroAttr]
         IN [heap |-> Append(h, arr), slice |-> [arr |-> Len(h) + 1, len |-> n]]

\* A loop of append(s, x), one element at a time.
RECURSIVE AppendEach(_, _, _)
AppendEach(h, s, xs) ==
    IF xs = <<>> THEN [heap |-> h, slice |-> s]
    ELSE LET a == GoAppend(h, s, <<Head(xs)>>)
         IN AppendEach(a.heap, a.slice, Tail(xs))

\* The slice a variadic call receives for explicit arguments f(a, b): a fresh
\* array of exactly that length (nil when there are none).
Variadic(h, xs) ==
    IF xs = <<>> THEN [heap |-> h, slice |-> NilSlice]
    ELSE [heap |-> Append(h, xs), slice |-> [arr |-> Len(h) + 1, len |-> Len(xs)]]

----------------------------------------------------------------------------
\* Errors.
\*   Nil                                       a nil error
\*   [kind |-> "foreign", text, inner]         an error that is no *AppErr; inner is
\*                                             what its Unwrap returns (fmt.Errorf %w)
\*   [kind |-> "app", ptr, Cause, Code, Msg, Attrs]   an *AppErr; ptr tells one
\*                                             allocation from another
\*   [kind |-> "connect", code, err, meta]     a *connect.Error around err

Nil == [kind |-> "nil"]

AppErr(ptr, cause, code, msg, attrs) ==
    [kind |-> "app", ptr |-> ptr, Cause |-> cause, Code |-> code, Msg |-> msg,
     Attrs |-> attrs]

\* The predefined Err<Code> values: a code and nothing else.
PredefinedErr(c) == AppErr(0 - c, Nil, c, "", NilSlice)

\* sql.ErrNoRows, an error of another package.
SqlErrNoRows == [kind |-> "foreign", text |-> "sql: no rows in result set", inner |-> Nil]

\* fmt.Errorf("failed to get post: %w", err), as the repositories do.
Errorf(err) ==
    [kind |-> "foreign",
     text |-> "failed to get post: " \o (IF err.kind = "app" THEN err.Msg ELSE err.text),
     inner |-> err]

\* err.Error(); that of a *connect.Error is its code, then ": " and the text of
\* the underlying error when that text is not empty.
RECURSIVE ErrorText(_)
ErrorText(err) ==
    IF err.kind = "app" THEN err.Msg
    ELSE IF err.kind = "connect"
    THEN IF ErrorText(err.err) = "" THEN CodeString(err.code)
         ELSE CodeString(err.code) \o ": " \o ErrorText(err.err)
    ELSE err.text

\* fmt.Errorf(prefix + ": %w", err)
ErrorfW(prefix, err) ==
    [kind |-> "foreign", text |-> prefix \o ": " \o ErrorText(err), inner |-> err]

\* errors.As(err, &appErr): the first *AppErr on the Unwrap chain, Nil if none.
RECURSIVE As(_)
As(err) ==
    IF err.kind = "nil" THEN Nil
    ELSE IF err.kind = "app" THEN err
    ELSE IF err.kind = "connect" THEN As(err.err)
    ELSE As(err.inner)

\* (*AppErr).Unwrap, the Unwrap of a fmt.Errorf("%w") error and of a *connect.Error.
Unwrap(err) ==
    IF err.kind = "app" THEN err.Cause
    ELSE IF err.kind = "foreign" THEN err.inner
    ELSE IF err.kind = "connect" THEN err.err
    ELSE Nil

\* (*AppErr).Is comparing allocations instead of codes.
AppErrIsSamePointer(e, target, errorsIs) ==
    IF target = Nil THEN FALSE
    ELSE IF target.kind = "app" THEN e.ptr = target.ptr
    ELSE errorsIs

\* (*AppErr).Is(target); errorsIs is the value of errors.Is(e.Cause, target).
AppErrIs(e, target, errorsIs) ==
    IF target = Nil THEN FALSE
    ELSE IF target.kind = "app" THEN e.Code = target.Code
    ELSE errorsIs

\* errors.Is(err, target): down the Unwrap chain, err == target or err.Is(target).
RECURSIVE ErrorsIs(_, _)
ErrorsIs(err, target) ==
    IF err = Nil \/ target = Nil THEN err = target
    ELSE \/ err = target
         \/ err.kind = "app" /\ AppErrIs(err, target, ErrorsIs(err.Cause, target))
         \/ Unwrap(err) # Nil /\ ErrorsIs(Unwrap(err), target)

\* The text withStack captures at the site-th New/Wrap call of the request.
StackText(site) == "stack#" \o ToString(site)

\* withStack(): the call stack of the caller of New/Wrap under the reserved key.
withStack(site) == SlogString(StackKey, StackText(site))

\* New leaving the code out of the message.
NewBareMsg(h, site, code, msg, attrs) ==
    LET a == GoAppend(h, attrs, <<withStack(site)>>)
    IN [heap |-> a.heap, err |-> AppErr(site, Nil, code, msg, a.slice)]

\* New(code, msg, attrs...)
New(h, site, code, msg, attrs) ==
    LET a == GoAppend(h, attrs, <<withStack(site)>>)
    IN [heap |-> a.heap,
        err |-> AppErr(site, Nil, code, msg \o " (" \o CodeString(code) \o ")", a.slice)]

\* Wrap that keeps the wrapped AppErr as the cause whatever its own cause is.
WrapNoFlatten(h, site, err, code, msg, attrs) ==
    LET a == GoAppend(h, attrs, <<withStack(site)>>)
        appErr == As(err)
    IN IF appErr = Nil
       THEN [heap |-> a.heap,
             err |-> AppErr(site, err, code,
                            msg \o ": " \o ErrorText(err) \o " (" \o CodeString(code) \o ")",
                            a.slice)]
       ELSE LET m1 == GoAppend(a.heap, NilSlice, Elems(a.heap, appErr.Attrs))
                m2 == AppendEach(m1.heap, m1.slice,
                                 SelectSeq(Elems(a.heap, a.slice),
                                           LAMBDA x : x.Key # StackKey))
            IN [heap |-> m2.heap,
                err |-> AppErr(site, appErr, code,
                               msg \o " (" \o CodeString(code) \o "): " \o appErr.Msg,
                               m2.slice)]

\* Wrap that keeps the code of the wrapped AppErr.
WrapKeepInnerCode(h, site, err, code, msg, attrs) ==
    LET a == GoAppend(h, attrs, <<withStack(site)>>)
        appErr == As(err)
    IN IF appErr = Nil
       THEN [heap |-> a.heap,
             err |-> AppErr(site, err, code,
                            msg \o ": " \o ErrorText(err) \o " (" \o CodeString(code) \o ")",
                            a.slice)]
       ELSE LET m1 == GoAppend(a.heap, NilSlice, Elems(a.heap, appErr.Attrs))
                m2 == AppendEach(m1.heap, m1.slice,
                                 SelectSeq(Elems(a.heap, a.slice),
                                           LAMBDA x : x.Key # StackKey))
                cause == IF appErr.Cause = Nil THEN appErr ELSE appErr.Cause
            IN [heap |-> m2.heap,
                err |-> AppErr(site, cause, appErr.Code,
                               msg \o " (" \o CodeString(code) \o "): " \o appErr.Msg,
                               m2.slice)]

\* Wrap that flattens every source: the cause is what the source unwraps to.
WrapUnwrapsSource(h, site, err, code, msg, attrs) ==
    LET a == GoAppend(h, attrs, <<withStack(site)>>)
        appErr == As(err)
    IN IF appErr = Nil
       THEN [heap |-> a.heap,
             err |-> AppErr(site, Unwrap(err), code,
                            msg \o ": " \o ErrorText(err) \o " (" \o CodeString(code) \o ")",
                            a.slice)]
       ELSE LET m1 == GoAppend(a.heap, NilSlice, Elems(a.heap, appErr.Attrs))
                m2 == AppendEach(m1.heap, m1.slice,
                                 SelectSeq(Elems(a.heap, a.slice),
                                           LAMBDA x : x.Key # StackKey))
                cause == IF appErr.Cause = Nil THEN appErr ELSE appErr.Cause
            IN [heap |-> m2.heap,
                err |-> AppErr(site, cause, code,
                               msg \o " (" \o CodeString(code) \o "): " \o appErr.Msg,
                               m2.slice)]

\* Wrap(err, code, msg, attrs...)
Wrap(h, site, err, code, msg, attrs) ==
    LET a == GoAppend(h, attrs, <<withStack(site)>>)
        appErr == As(err)
    IN IF appErr = Nil
       THEN [heap |-> a.heap,
             err |-> AppErr(site, err, code,
                            msg \o ": " \o ErrorText(err) \o " (" \o CodeString(code) \o ")",
                            a.slice)]
       ELSE LET combinedMsg == msg \o " (" \o CodeString(code) \o "): " \o appErr.Msg
                \* mergedAttrs = append(mergedAttrs, appErr.Attrs...), read after
                \* the append above has run
                m1 == GoAppend(a.heap, NilSlice, Elems(a.heap, appErr.Attrs))
                \* the loop over attrs, skipping the stack-trace key
                m2 == AppendEach(m1.heap, m1.slice,
                                 SelectSeq(Elems(a.heap, a.slice),
                                           LAMBDA x : x.Key # StackKey))
                cause == IF appErr.Cause = Nil THEN appErr ELSE appErr.Cause
            IN [heap |-> m2.heap,
                err |-> AppErr(site, cause, code, combinedMsg, m2.slice)]

\* slog.Group(k, attrs...) and slog.GroupValue(attrs...): GroupValue drops the
\* attributes that are groups with nothing in them.
SlogGroup(k, attrs) == Attr(k, [kind |-> "Group", attrs |-> attrs])

GroupValue(attrs) ==
    [kind |-> "Group",
     attrs |-> SelectSeq(attrs, LAMBDA a : ~(a.Value.kind = "Group" /\ a.Value.attrs = <<>>))]

\* (*AppErr).LogValue on the heap h.
LogValue(h, e) ==
    GroupValue(<<SlogString("msg", e.Msg), SlogString("code", CodeString(e.Code))>>
               \o (IF e.Cause # Nil THEN <<SlogString("cause", ErrorText(e.Cause))>>
                   ELSE <<>>)
               \o <<SlogGroup("attrs", Elems(h, e.Attrs))>>)

----------------------------------------------------------------------------
\* Structured logger (pkg/logging).

LevelDebug == -4
LevelInfo == 0
LevelWarn == 4
LevelError == 8

\* fromContext giving nothing for a context that is canceled.
fromContextUnlessCanceled(ctx) ==
    IF ~ctx.spanValid \/ ctx.canceled THEN <<>>
    ELSE <<SlogString("trace_id", ctx.traceID), SlogString("span_id", ctx.spanID)>>

\* fromContext(ctx): trace_id and span_id when the span context is valid.
fromContext(ctx) ==
    IF ~ctx.spanValid THEN <<>>
    ELSE <<SlogString("trace_id", ctx.traceID), SlogString("span_id", ctx.spanID)>>

\* Logger.log over a buffer that holds the last record only.
LoggerLogKeepsLast(s, lvl, ctx, level, msg, args) ==
    IF level < lvl THEN s
    ELSE <<[level |-> level, msg |-> msg, attrs |-> fromContext(ctx) \o args]>>

\* Logger.log with the arguments before the context attributes.
LoggerLogArgsFirst(s, lvl, ctx, level, msg, args) ==
    IF level < lvl THEN s
    ELSE Append(s, [level |-> level, msg |-> msg, attrs |-> args \o fromContext(ctx)])

\* Logger.log: context attributes first, then the arguments; the handler drops a
\* record below its minimum level.
LoggerLog(s, lvl, ctx, level, msg, args) ==
    IF level < lvl THEN s
    ELSE Append(s, [level |-> level, msg |-> msg, attrs |-> fromContext(ctx) \o args])

\* Logger.Error writing at warn level.
LoggerErrorAsWarn(s, lvl, ctx, msg, err, args) ==
    LoggerLog(s, lvl, ctx, LevelWarn, msg,
              <<SlogString("error", ErrorText(err))>> \o args)

\* Logger.Error: the error attribute holds err.Error(), then the arguments.
LoggerError(s, lvl, ctx, msg, err, args) ==
    LoggerLog(s, lvl, ctx, LevelError, msg,
              <<SlogString("error", ErrorText(err))>> \o args)

----------------------------------------------------------------------------
\* Transport errors (connect.Error) and their metadata (http.Header).

EmptyHeader == [k \in {} |-> <<>>]

\* Header.Set(k, v): the values of the canonical key are replaced by v alone.
HeaderSet(h, k, v) ==
    LET ck == CanonicalMIMEHeaderKey(k)
    IN [x \in (DOMAIN h) \cup {ck} |-> IF x = ck THEN <<v>> ELSE h[x]]

\* Header.Get(k): the first value of the canonical key, "" when there is none.
HeaderGet(h, k) ==
    LET ck == CanonicalMIMEHeaderKey(k)
    IN IF ck \in DOMAIN h THEN h[ck][1] ELSE ""

\* connect.NewError(code, underlying)
ConnectNewError(code, underlying) ==
    [kind |-> "connect", code |-> code, err |-> underlying, meta |-> EmptyHeader]

\* (*connect.Error).Message(): the text of the underlying error.
ConnectMessage(ce) == ErrorText(ce.err)

\* The loop of handleError without the test of the stack-trace key.
RECURSIVE SetMetaAll(_, _)
SetMetaAll(h, attrs) ==
    IF attrs = <<>> THEN h
    ELSE SetMetaAll(HeaderSet(h, Head(attrs).Key, ValueString(Head(attrs).Value)),
                    Tail(attrs))

\* The loop of handleError over appErr.Attrs.
RECURSIVE SetMeta(_, _)
SetMeta(h, attrs) ==
    IF attrs = <<>> THEN h
    ELSE LET a == Head(attrs)
         IN SetMeta(IF a.Key # StackKey THEN HeaderSet(h, a.Key, ValueString(a.Value)) ELSE h,
                    Tail(attrs))

NoVerdict == [called |-> FALSE, code |-> 0, result |-> FALSE]

\* handleError logging every AppErr, whatever its class.
handleErrorLogAll(s, lvl, ctx, h, err) ==
    IF err = Nil THEN [sink |-> s, err |-> Nil, verdict |-> NoVerdict]
    ELSE LET appErr == As(err) IN
         IF appErr = Nil
         THEN [sink |-> LoggerError(s, lvl, ctx, "Unhandled error occurred", err, <<>>),
               err |-> ConnectNewError(Unknown, err),
               verdict |-> NoVerdict]
         ELSE LET connectErr == ConnectNewError(appErr.Code, appErr)
              IN [sink |-> LoggerError(s, lvl, ctx, "Server error occurred", appErr, <<>>),
                  err |-> [connectErr EXCEPT
                             !.meta = SetMeta(EmptyHeader, Elems(h, appErr.Attrs))],
                  verdict |-> [called |-> TRUE, code |-> appErr.Code,
                               result |-> IsServerError(appErr.Code)]]

\* handleError taking a nil error for an unhandled one.
handleErrorNilAsUnknown(s, lvl, ctx, h, err) ==
    LET appErr == IF err = Nil THEN Nil ELSE As(err) IN
    IF appErr = Nil
    THEN [sink |-> LoggerLog(s, lvl, ctx, LevelError, "Unhandled error occurred", <<>>),
          err |-> ConnectNewError(Unknown,
                                  [kind |-> "foreign", text |-> "unknown", inner |-> Nil]),
          verdict |-> NoVerdict]
    ELSE LET server == IsServerError(appErr.Code)
             connectErr == ConnectNewError(appErr.Code, appErr)
         IN [sink |-> IF server
                      THEN LoggerError(s, lvl, ctx, "Server error occurred", appErr, <<>>)
                      ELSE s,
             err |-> [connectErr EXCEPT
                        !.meta = SetMeta(EmptyHeader, Elems(h, appErr.Attrs))],
             verdict |-> [called |-> TRUE, code |-> appErr.Code, result |-> server]]

\* handleError(ctx, err, logger): the new sink, the transport error and the
\* IsServerError call it made.
handleError(s, lvl, ctx, h, err) ==
    IF err = Nil THEN [sink |-> s, err |-> Nil, verdict |-> NoVerdict]
    ELSE LET appErr == As(err) IN
         IF appErr = Nil
         THEN [sink |-> LoggerError(s, lvl, ctx, "Unhandled error occurred", err, <<>>),
               err |-> ConnectNewError(Unknown, err),
               verdict |-> NoVerdict]
         ELSE LET server == IsServerError(appErr.Code)
                  connectErr == ConnectNewError(appErr.Code, appErr)
              IN [sink |-> IF server
                           THEN LoggerError(s, lvl, ctx, "Server error occurred", appErr, <<>>)
                           ELSE s,
                  err |-> [connectErr EXCEPT
                             !.meta = SetMeta(EmptyHeader, Elems(h, appErr.Attrs))],
                  verdict |-> [called |-> TRUE, code |-> appErr.Code, result |-> server]]

----------------------------------------------------------------------------
\* The request: the handler's layers build an error, the interceptor handles it.

\* Inputs of the layers.
NewMsg == "invalid email"
WrapMsg == "failed to fetch"
\* The codes given to New: a client one, a server one, and the values of the type
\* outside the named codes (every named code also arrives as a predefined value).
NewCodes == {InvalidArgument, Internal} \cup (Codes \ NamedCodes)
\* The codes the use cases give to Wrap.
WrapCodes == {NotFound, Internal}
\* Attributes written out at a call site: none, or two of them.
LiteralArgs == {<<>>, <<SlogString("field", "email"), SlogInt("attempt", 3)>>}
\* The attribute the handler keeps in its own slice.
CallerAttr == SlogString("field", "name")

Contexts ==
    {[spanValid |-> FALSE, traceID |-> "00000000000000000000000000000000",
      spanID |-> "0000000000000000"],
     [spanValid |-> TRUE, traceID |-> "4bf92f3577b34da6a3ce929d0e0e4736",
      spanID |-> "00f067aa0ba902b7"]}

\* No request through the whole chain, no logger call, no other request in flight.
NoRequest == [chain |-> "none"]
NoCall == [op |-> "none"]

Op(op, code, args, shared, src, srcAttrs) ==
    [op |-> op, code |-> code, args |-> args, shared |-> shared, src |-> src,
     srcAttrs |-> srcAttrs]

\* The error the handler holds so far (nil before any layer failed).
Current == IF built = <<>> THEN Nil ELSE built[Len(built)]

Init ==
    /\ \E spare \in 0 .. 1 :
          heap = <<[i \in 1 .. (1 + spare) |-> IF i = 1 THEN CallerAttr ELSE ZeroAttr]>>
    /\ callerSlice = [arr |-> 1, len |-> 1]
    /\ built = <<>>
    /\ ops = <<>>
    /\ calls = 0
    /\ pc = "handler"
    /\ sink = <<>>
    /\ out = [resp |-> "none", err |-> Nil]
    /\ verdict = NoVerdict
    /\ minLevel \in {LevelDebug, LevelInfo, LevelWarn, LevelError}
    /\ reqCtx \in Contexts
    /\ req = NoRequest
    /\ call = NoCall
    /\ tasks = <<>>

\* A driver call fails with sql.ErrNoRows.
HandlerSqlErr ==
    /\ pc = "handler" /\ built = <<>>
    /\ built' = <<SqlErrNoRows>>
    /\ ops' = <<Op("Foreign", 0, <<>>, FALSE, Nil, <<>>)>>
    /\ UNCHANGED <<heap, callerSlice, calls, pc, sink, out, verdict, minLevel, reqCtx, req, call, tasks>>

\* A layer returns a predefined Err<Code> value as it is.
HandlerPredefined ==
    /\ pc = "handler" /\ built = <<>>
    /\ \E c \in NamedCodes :
          /\ built' = <<PredefinedErr(c)>>
          /\ ops' = <<Op("Predefined", c, <<>>, FALSE, Nil, <<>>)>>
    /\ UNCHANGED <<heap, callerSlice, calls, pc, sink, out, verdict, minLevel, reqCtx, req, call, tasks>>

\* A layer detects a failure: New(code, msg, a, b) with the attributes written out.
HandlerNew ==
    /\ pc = "handler" /\ built = <<>>
    /\ \E c \in NewCodes, xs \in LiteralArgs :
          LET v == Variadic(heap, xs)
              r == New(v.heap, calls + 1, c, NewMsg, v.slice)
          IN /\ heap' = r.heap
             /\ built' = <<r.err>>
             /\ ops' = <<Op("New", c, xs, FALSE, Nil, <<>>)>>
    /\ calls' = calls + 1
    /\ UNCHANGED <<callerSlice, pc, sink, out, verdict, minLevel, reqCtx, req, call, tasks>>

\* New(code, msg, s...) with the handler's own slice.
HandlerNewShared ==
    /\ pc = "handler" /\ built = <<>>
    /\ \E c \in NewCodes :
          LET r == New(heap, calls + 1, c, NewMsg, callerSlice)
          IN /\ heap' = r.heap
             /\ built' = <<r.err>>
             /\ ops' = <<Op("New", c, Elems(heap, callerSlice), TRUE, Nil, <<>>)>>
    /\ calls' = calls + 1
    /\ UNCHANGED <<callerSlice, pc, sink, out, verdict, minLevel, reqCtx, req, call, tasks>>

\* A layer passes the error on as fmt.Errorf("...: %w", err).
HandlerErrorf ==
    /\ pc = "handler" /\ built # <<>> /\ Len(built) < MaxLayers
    /\ built' = Append(built, Errorf(Current))
    /\ ops' = Append(ops, Op("Errorf", 0, <<>>, FALSE, Nil, <<>>))
    /\ UNCHANGED <<heap, callerSlice, calls, pc, sink, out, verdict, minLevel, reqCtx, req, call, tasks>>

\* A layer adds context: Wrap(err, code, msg, a, b) with the attributes written out.
HandlerWrap ==
    /\ pc = "handler" /\ built # <<>> /\ Len(built) < MaxLayers
    /\ \E c \in WrapCodes, xs \in LiteralArgs :
          LET v == Variadic(heap, xs)
              src == As(Current)
              r == Wrap(v.heap, calls + 1, Current, c, WrapMsg, v.slice)
          IN /\ heap' = r.heap
             /\ built' = Append(built, r.err)
             /\ ops' = Append(ops, Op("Wrap", c, xs, FALSE, src,
                                      IF src = Nil THEN <<>> ELSE Elems(heap, src.Attrs)))
    /\ calls' = calls + 1
    /\ UNCHANGED <<callerSlice, pc, sink, out, verdict, minLevel, reqCtx, req, call, tasks>>

\* Wrap(err, code, msg, s...) with the handler's own slice.
HandlerWrapShared ==
    /\ pc = "handler" /\ built # <<>> /\ Len(built) < MaxLayers
    /\ \E c \in WrapCodes :
          LET src == As(Current)
              r == Wrap(heap, calls + 1, Current, c, WrapMsg, callerSlice)
          IN /\ heap' = r.heap
             /\ built' = Append(built, r.err)
             /\ ops' = Append(ops, Op("Wrap", c, Elems(heap, callerSlice), TRUE, src,
                                      IF src = Nil THEN <<>> ELSE Elems(heap, src.Attrs)))
    /\ calls' = calls + 1
    /\ UNCHANGED <<callerSlice, pc, sink, out, verdict, minLevel, reqCtx, req, call, tasks>>

\* The handler returns and the closure of NewInterceptor runs: resp, err := next(...);
\* a non-nil err goes through handleError, a nil err passes the response through.
Intercept ==
    /\ pc = "handler"
    /\ LET r == handleError(sink, minLevel, reqCtx, heap, Current)
       IN /\ sink' = r.sink
          /\ verdict' = r.verdict
          /\ out' = [resp |-> IF Current = Nil THEN "response" ELSE "none", err |-> r.err]
    /\ pc' = "done"
    /\ UNCHANGED <<heap, callerSlice, built, ops, calls, minLevel, reqCtx, req, call, tasks>>

Next ==
    \/ HandlerSqlErr
    \/ HandlerPredefined
    \/ HandlerNew
    \/ HandlerNewShared
    \/ HandlerErrorf
    \/ HandlerWrap
    \/ HandlerWrapShared
    \/ Intercept

Spec == Init /\ [][Next]_vars

----------------------------------------------------------------------------
\* Properties.

Done == pc = "done"

\* The AppErr handleError finds in the handler's error (Nil if none), and the code
\* it resolves the error to.
Resolved == As(Current)
ResolvedCode == IF Resolved = Nil THEN Unknown ELSE Resolved.Code

\* Whether the text t appears in a record: in its message, a key or a value.
RecordContains(r, t) ==
    \/ Contains(r.msg, t)
    \/ \E i \in 1 .. Len(r.attrs) :
          Contains(r.attrs[i].Key, t) \/ Contains(ValueString(r.attrs[i].Value), t)

NonStack(attrs) == SelectSeq(attrs, LAMBDA x : x.Key # StackKey)
StackAttrs(attrs) == SelectSeq(attrs, LAMBDA x : x.Key = StackKey)

\* C1: a handler error whose resolved code is client-class leaves the logging sink
\* empty once the error interceptor has returned.
C1_ClientErrorNotLogged ==
    (Done /\ Current # Nil /\ ~IsServerError(ResolvedCode)) => sink = <<>>

C1_Witness ==
    /\ Done /\ Resolved # Nil /\ ~IsServerError(ResolvedCode)
    /\ Len(built) = 2 /\ out.err.code = NotFound

LastCode ==
    LET idx == {i \in 1 .. Len(ops) : ops[i].op \in {"New", "Wrap", "Predefined"}}
    IN IF idx = {} THEN Unknown
       ELSE ops[CHOOSE i \in idx : \A j \in idx : j <= i].code

C3_OutermostCode ==
    (Done /\ Current # Nil) =>
        /\ out.err.code = LastCode
        /\ (sink # <<>>) <=> IsServerError(LastCode)
        /\ verdict.called => verdict.code = LastCode

C3_Witness ==
    /\ Done /\ Len(ops) = 3
    /\ ops[1].op = "New" /\ ops[1].code = Internal
    /\ ops[2].op = "Wrap" /\ ops[2].code = NotFound
    /\ ops[3].op = "Errorf"
    /\ out.err.code = NotFound /\ sink = <<>>

C5_MetadataOnePerAttr ==
    (Done /\ Resolved # Nil) =>
        LET attrs == NonStack(Elems(heap, Resolved.Attrs))
            meta == out.err.meta
        IN /\ Cardinality(DOMAIN meta) = Len(attrs)
           /\ \A i \in 1 .. Len(attrs) :
                 HeaderGet(meta, attrs[i].Key) = ValueString(attrs[i].Value)

\* C6: nothing the caller receives holds a captured stack trace: neither the
\* message of the transport error nor a key or value of its metadata contains the
\* text of any stack captured while the error was built.
C6_NoStackTraceExposed ==
    (Done /\ Current # Nil) =>
        \A site \in 1 .. calls :
            /\ ~Contains(ConnectMessage(out.err), StackText(site))
            /\ \A k \in DOMAIN out.err.meta :
                  /\ ~Contains(k, StackText(site))
                  /\ \A i \in 1 .. Len(out.err.meta[k]) :
                        ~Contains(out.err.meta[k][i], StackText(site))

C6_Witness ==
    /\ Done /\ Resolved # Nil /\ Len(built) = 3 /\ calls = 3
    /\ StackAttrs(Elems(heap, Resolved.Attrs)) # <<>>
    /\ Cardinality(DOMAIN out.err.meta) = 2

\* Whether a record carries an attribute: its key and the string form of its value.
RecordHasAttr(r, a) ==
    RecordContains(r, a.Key) /\ RecordContains(r, ValueString(a.Value))

\* C7 as stated: the record written for a server-class AppErr carries its code, its
\* message, its cause and each of its attributes, the stack trace among them.
C7_RecordCarriesFullError ==
    (Done /\ Resolved # Nil /\ IsServerError(ResolvedCode)) =>
        /\ Len(sink) = 1
        /\ RecordContains(sink[1], CodeString(Resolved.Code))
        /\ RecordContains(sink[1], Resolved.Msg)
        /\ Resolved.Cause # Nil => RecordContains(sink[1], ErrorText(Resolved.Cause))
        /\ \A i \in 1 .. Resolved.Attrs.len :
              RecordHasAttr(sink[1], Elems(heap, Resolved.Attrs)[i])

\* C8: over any run of Wrap layers above an AppErr, the final Cause is the foreign
\* error the AppErr had as its cause, or the AppErr itself when it had no cause;
\* it is never one of the AppErrs in between.
C8_CauseFlattening ==
    \A i \in 1 .. Len(built) : \A j \in (i + 1) .. Len(built) :
        (built[i].kind = "app" /\ \A k \in (i + 1) .. j : ops[k].op = "Wrap") =>
            /\ built[i].Cause.kind = "foreign" => built[j].Cause = built[i].Cause
            /\ built[i].Cause = Nil => built[j].Cause = built[i]
            /\ \A k \in (i + 1) .. (j - 1) : built[j].Cause # built[k]

C8_Witness ==
    /\ Len(built) = 3
    /\ ops[1].op = "Foreign" /\ ops[2].op = "Wrap" /\ ops[3].op = "Wrap"
    /\ built[3].Cause = SqlErrNoRows /\ built[2].Cause = SqlErrNoRows

\* C9 as stated: an error made by New, or by Wrap over an error that holds no
\* AppErr, and every error got from it by Wrap layers alone, holds exactly one
\* stack-trace attribute: the one captured by that first call.
C9_OneStackTraceFromFirstCall ==
    \A i \in 1 .. Len(built) : \A j \in i .. Len(built) :
        ( /\ ops[i].op = "New" \/ (ops[i].op = "Wrap" /\ ops[i].src = Nil)
          /\ \A k \in (i + 1) .. j : ops[k].op = "Wrap" ) =>
            StackAttrs(Elems(heap, built[j].Attrs)) = <<withStack(built[i].ptr)>>

\* C10 as stated: Wrap over an AppErr gives the attributes of the wrapped error in
\* order, then the new attributes in order; the fresh stack trace is dropped only
\* when the wrapped error has one, so the result of wrapping an AppErr with no stack
\* trace holds exactly one.
C10_MergeKeepsOneStackTrace ==
    \A j \in 1 .. Len(built) :
        (ops[j].op = "Wrap" /\ ops[j].src # Nil) =>
            LET result == Elems(heap, built[j].Attrs)
            IN /\ NonStack(result) = NonStack(ops[j].srcAttrs) \o ops[j].args
               /\ StackAttrs(ops[j].srcAttrs) = <<>> => Len(StackAttrs(result)) = 1

\* Every AppErr the handler has made or met: its layers (the cause of a layer is an
\* earlier layer or no AppErr) and two of the predefined values.
AppErrsBuilt ==
    {built[i] : i \in {k \in 1 .. Len(built) : built[k].kind = "app"}}
        \cup {PredefinedErr(c) : c \in {NotFound, Internal}}

\* C11: for AppErrs a and b, whatever their messages, causes and attributes,
\* a.Is(b) is true exactly when a.Code = b.Code; the relation is reflexive,
\* symmetric and transitive.
C11_IsByCode ==
    \A a \in AppErrsBuilt : \A b \in AppErrsBuilt :
        LET is(x, y) == AppErrIs(x, y, ErrorsIs(x.Cause, y))
        IN /\ is(a, b) <=> a.Code = b.Code
           /\ is(a, a)
           /\ is(a, b) => is(b, a)
           /\ \A c \in AppErrsBuilt : (is(a, b) /\ is(b, c)) => is(a, c)

\* New(c, m1) and Wrap(.., c, m2) with the same code, another message, cause and
\* attributes, and an error of another code beside them.
C11_Witness ==
    /\ Len(built) = 3
    /\ ops[1].op = "New" /\ ops[2].op = "Wrap" /\ ops[3].op = "Wrap"
    /\ built[1].Code = Internal /\ built[2].Code = Internal /\ built[3].Code = NotFound
    /\ built[1].Msg # built[2].Msg /\ built[1].Cause # built[2].Cause
    /\ Elems(heap, built[1].Attrs) # Elems(heap, built[2].Attrs)
    /\ AppErrIs(built[1], built[2], FALSE) /\ ~AppErrIs(built[2], built[3], FALSE)

\* C12 as stated: Wrap over a source that is not itself an AppErr gives an AppErr
\* whose Cause, and so whose Unwrap, is that source and whose code is the given one.
C12_WrapOfNonAppErr ==
    \A j \in 2 .. Len(built) :
        (ops[j].op = "Wrap" /\ built[j - 1].kind # "app") =>
            /\ built[j].kind = "app"
            /\ built[j].Cause = built[j - 1]
            /\ Unwrap(built[j]) = built[j - 1]
            /\ built[j].Code = ops[j].code

\* C12, amended: Wrap over a source with no AppErr anywhere on its Unwrap chain gives
\* an AppErr whose Cause, and so whose Unwrap, is that source and whose code is the
\* given one.
C12_WrapOfSourceWithoutAppErr ==
    \A j \in 2 .. Len(built) :
        (ops[j].op = "Wrap" /\ As(built[j - 1]) = Nil) =>
            /\ built[j].kind = "app"
            /\ built[j].Cause = built[j - 1]
            /\ Unwrap(built[j]) = built[j - 1]
            /\ built[j].Code = ops[j].code

C12_Witness ==
    /\ Len(built) = 3
    /\ ops[1].op = "Foreign" /\ ops[2].op = "Errorf" /\ ops[3].op = "Wrap"
    /\ built[3].Cause = Errorf(SqlErrNoRows) /\ built[3].Code = NotFound

----------------------------------------------------------------------------
\* The interceptor chain of the server: recover handler, access log, error
\* interceptor, handler.  req.chain tells which chain serves the request:
\*   "server"  the chain NewConnectServer installs;
\*   "access"  the access-log interceptor around a handler of its own.

\* Logger.Info
LoggerInfo(s, lvl, ctx, msg, args) == LoggerLog(s, lvl, ctx, LevelInfo, msg, args)

\* The status of the access record without the code of a transport error.
AccessStatusNoCode(err) == IF err = Nil THEN "ok" ELSE "unknown"

\* The status of the access record: "ok", the code of a *connect.Error, "unknown".
AccessStatus(err) ==
    IF err = Nil THEN "ok"
    ELSE IF err.kind = "connect" THEN CodeString(err.code)
    ELSE "unknown"

\* What the interceptor reads from the request headers; nothing when the request
\* has no header map.
UserAgent(r) == IF r.hasHeader THEN HeaderGet(r.header, "User-Agent") ELSE ""

RemoteAddr(r) ==
    IF ~r.hasHeader THEN ""
    ELSE IF HeaderGet(r.header, "X-Forwarded-For") # ""
    THEN HeaderGet(r.header, "X-Forwarded-For")
    ELSE HeaderGet(r.header, "X-Real-IP")

Method(r) ==
    IF ~r.hasHeader THEN ""
    ELSE IF HeaderGet(r.header, "X-Http-Method") # ""
    THEN HeaderGet(r.header, "X-Http-Method")
    ELSE "POST"

\* The attributes of the access record, in the order of the call.
AccessAttrs(r, status, durationMs) ==
    <<SlogString("procedure", r.procedure),
      SlogString("method", Method(r)),
      SlogString("status", status),
      SlogInt("duration_ms", durationMs),
      SlogString("user_agent", UserAgent(r)),
      SlogString("remote_addr", RemoteAddr(r))>>

\* The closure of NewAccessLogInterceptor after next returned err: the new sink.
accessLog(s, lvl, ctx, r, err, durationMs) ==
    LoggerInfo(s, lvl, ctx, "Access log", AccessAttrs(r, AccessStatus(err), durationMs))

\* fmt.Errorf(text): an error of its own with that text.
ErrorfText(text) == [kind |-> "foreign", text |-> text, inner |-> Nil]

\* The recover function answering with the panic value in the message.
recoverHandlerLeaks(s, lvl, ctx, procedure, p) ==
    [sink |-> LoggerError(s, lvl, ctx, "Panic recovered in Connect handler",
                          ErrorfText("panic: " \o p),
                          <<SlogString("procedure", procedure)>>),
     err |-> ConnectNewError(Internal, ErrorfText("panic: " \o p))]

\* The function newRecoverHandler gives to connect.WithRecover, called with the
\* recovered value p: the new sink and the error sent to the caller.
recoverHandler(s, lvl, ctx, procedure, p) ==
    [sink |-> LoggerError(s, lvl, ctx, "Panic recovered in Connect handler",
                          ErrorfText("panic: " \o p),
                          <<SlogString("procedure", procedure)>>),
     err |-> ConnectNewError(Internal, ErrorfText("internal server error"))]

\* Inputs of a request through the chain.
Procedure == "/api.UserService/GetUser"

RequestHeaders ==
    {EmptyHeader,
     HeaderSet(HeaderSet(EmptyHeader, "User-Agent", "connect-go/1.11.1"),
               "X-Real-IP", "10.0.0.1"),
     HeaderSet(HeaderSet(HeaderSet(EmptyHeader, "X-Forwarded-For", "192.168.1.100"),
                         "X-Real-IP", "10.0.0.1"),
               "X-Http-Method", "GET")}

Requests ==
    {[chain |-> c, procedure |-> Procedure, hasHeader |-> TRUE, header |-> h,
      panic |-> ""] : c \in {"server", "access"}, h \in RequestHeaders}
        \cup {[chain |-> "access", procedure |-> Procedure, hasHeader |-> FALSE,
               header |-> EmptyHeader, panic |-> ""]}

\* Values a handler panics with, as %v prints them.
PanicValues ==
    {"runtime error: invalid memory address or nil pointer dereference",
     "dial tcp 10.0.0.5:5432: password authentication failed"}

\* Milliseconds between the start of the access-log interceptor and the return of next.
Durations == {0, 150}

\* The context the recover function gets: the one of the transport, from outside the
\* tracing interceptor, with no span.
OuterContext == CHOOSE c \in Contexts : ~c.spanValid

\* What a handler under the error interceptor returns: nothing, an error of another
\* package, a predefined value, or the result of New or Wrap.
ServerHandlerResults ==
    {[heap |-> heap, err |-> Nil], [heap |-> heap, err |-> SqlErrNoRows]}
        \cup {[heap |-> heap, err |-> PredefinedErr(c)] : c \in {NotFound, Unavailable}}
        \cup {New(Variadic(heap, xs).heap, 1, c, NewMsg, Variadic(heap, xs).slice) :
                c \in NewCodes, xs \in LiteralArgs}
        \cup {Wrap(Variadic(heap, xs).heap, 1, SqlErrNoRows, c, WrapMsg,
                   Variadic(heap, xs).slice) : c \in WrapCodes, xs \in LiteralArgs}

\* What the next of an access-log interceptor used on its own returns: nothing, a
\* transport error, an error that is none.
AccessHandlerResults ==
    {[heap |-> heap, err |-> Nil], [heap |-> heap, err |-> SqlErrNoRows]}
        \cup {[heap |-> heap,
               err |-> ConnectNewError(c, ErrorfText("user not found"))] :
                 c \in {InvalidArgument, NotFound, Internal}}

InitChain ==
    /\ heap = <<<<CallerAttr>>>>
    /\ callerSlice = [arr |-> 1, len |-> 1]
    /\ built = <<>>
    /\ ops = <<>>
    /\ calls = 0
    /\ pc = "handler"
    /\ sink = <<>>
    /\ out = [resp |-> "none", err |-> Nil]
    /\ verdict = NoVerdict
    /\ minLevel \in {LevelDebug, LevelInfo, LevelWarn, LevelError}
    /\ reqCtx \in Contexts
    /\ req \in Requests
    /\ call = NoCall
    /\ tasks = <<>>

\* The handler returns (resp, err).
ChainHandlerReturns ==
    /\ pc = "handler"
    /\ \E r \in (IF req.chain = "server" THEN ServerHandlerResults
                 ELSE AccessHandlerResults) :
          /\ heap' = r.heap
          /\ built' = <<r.err>>
    /\ pc' = (IF req.chain = "server" THEN "returned" ELSE "intercepted")
    /\ out' = [resp |-> IF built'[1] = Nil THEN "response" ELSE "none", err |-> built'[1]]
    /\ UNCHANGED <<callerSlice, ops, calls, sink, verdict, minLevel, reqCtx, req, call, tasks>>

\* The handler panics: the panic leaves the error interceptor and the access-log
\* interceptor, which defer nothing, and reaches the recover interceptor, the
\* outermost of the chain.
ChainHandlerPanics ==
    /\ pc = "handler" /\ req.chain = "server"
    /\ \E p \in PanicValues : req' = [req EXCEPT !.panic = p]
    /\ pc' = "panicking"
    /\ UNCHANGED <<heap, callerSlice, built, ops, calls, sink, out, verdict, minLevel,
                   reqCtx, call, tasks>>

\* The error interceptor, next in the chain above the handler.
ChainErrorInterceptor ==
    /\ pc = "returned"
    /\ LET r == handleError(sink, minLevel, reqCtx, heap, built[1])
       IN /\ sink' = r.sink
          /\ verdict' = r.verdict
          /\ out' = [out EXCEPT !.err = r.err]
    /\ pc' = "intercepted"
    /\ UNCHANGED <<heap, callerSlice, built, ops, calls, minLevel, reqCtx, req, call, tasks>>

\* The access-log interceptor, after its next returned: one Info call, then the
\* response and the error go on unchanged.
ChainAccessLog ==
    /\ pc = "intercepted"
    /\ \E d \in Durations : sink' = accessLog(sink, minLevel, reqCtx, req, out.err, d)
    /\ pc' = "finished"
    /\ UNCHANGED <<heap, callerSlice, built, ops, calls, out, verdict, minLevel, reqCtx,
                   req, call, tasks>>

\* The recover interceptor catches the panic and calls the recover function.
ChainRecover ==
    /\ pc = "panicking"
    /\ LET r == recoverHandler(sink, minLevel, OuterContext, req.procedure, req.panic)
       IN /\ sink' = r.sink
          /\ out' = [resp |-> "none", err |-> r.err]
    /\ pc' = "finished"
    /\ UNCHANGED <<heap, callerSlice, built, ops, calls, verdict, minLevel, reqCtx, req,
                   call, tasks>>

NextChain ==
    \/ ChainHandlerReturns
    \/ ChainHandlerPanics
    \/ ChainErrorInterceptor
    \/ ChainAccessLog
    \/ ChainRecover

SpecChain == InitChain /\ [][NextChain]_vars

\* Properties of the chain.

Finished == pc = "finished"

\* The info-level records of the sink, and the string under a key of a record.
InfoRecords == SelectSeq(sink, LAMBDA r : r.level = LevelInfo)

RecordValue(r, k) ==
    LET at == {i \in 1 .. Len(r.attrs) : r.attrs[i].Key = k}
    IN IF at = {} THEN "" ELSE ValueString(r.attrs[CHOOSE i \in at : TRUE].Value)

\* The status an access record must show for the error its interceptor saw.
ExpectedStatus ==
    IF out.err = Nil THEN "ok"
    ELSE IF out.err.kind = "connect" THEN CodeString(out.err.code)
    ELSE "unknown"

\* C13 as stated: every finished request has exactly one info-level record in the
\* sink, whose status is "ok" on success, the code of the transport error, or
\* "unknown" for an error that is no transport error.
C13_OneAccessRecordPerRequest ==
    Finished =>
        /\ Len(InfoRecords) = 1
        /\ RecordValue(InfoRecords[1], "status") = ExpectedStatus

\* C14 as stated: for a request of the server chain whose handler returned an
\* error, the access record is the last record of the sink and its status is the
\* code of the transport error the error interceptor made; a server-class error
\* has its error-level record before it.
C14_AccessRecordAfterErrorRecord ==
    (Finished /\ req.chain = "server" /\ req.panic = "" /\ built[1] # Nil) =>
        LET n == Len(sink) IN
        /\ n = (IF IsServerError(out.err.code) THEN 2 ELSE 1)
        /\ sink[n].level = LevelInfo /\ sink[n].msg = "Access log"
        /\ RecordValue(sink[n], "status") = CodeString(out.err.code)
        /\ n = 2 => sink[1].level = LevelError

\* C14, amended: the same when the minimum level of the logger admits info records;
\* above it the sink holds no access record, only the error-level record of a
\* server-class error.
C14_AccessRecordAfterErrorRecordIfInfoEnabled ==
    (Finished /\ req.chain = "server" /\ req.panic = "" /\ built[1] # Nil) =>
        LET n == Len(sink)
            e == IF IsServerError(out.err.code) THEN 1 ELSE 0
        IN /\ e = 1 => (n >= 1 /\ sink[1].level = LevelError)
           /\ IF minLevel <= LevelInfo
              THEN /\ n = e + 1
                   /\ sink[n].level = LevelInfo /\ sink[n].msg = "Access log"
                   /\ RecordValue(sink[n], "status") = CodeString(out.err.code)
              ELSE n = e

C14_Witness ==
    /\ Finished /\ req.chain = "server" /\ req.panic = ""
    /\ out.err # Nil /\ out.err.code = Internal
    /\ Len(sink) = 2
    /\ sink[1].msg = "Server error occurred" /\ sink[2].msg = "Access log"
    /\ RecordValue(sink[2], "status") = "internal"

\* C15: a request whose handler panicked ends with exactly one record in the sink,
\* at error level, and the caller gets a transport error of code Internal whose
\* message is the fixed text, without the panic value, and which has no metadata.
C15_PanicRecovered ==
    (Finished /\ req.panic # "") =>
        /\ Len(sink) = 1 /\ sink[1].level = LevelError
        /\ out.resp = "none"
        /\ out.err.kind = "connect" /\ out.err.code = Internal
        /\ ConnectMessage(out.err) = "internal server error"
        /\ ~Contains(ConnectMessage(out.err), req.panic)
        /\ out.err.meta = EmptyHeader

C15_Witness ==
    /\ Finished /\ req.panic # ""
    /\ out.err.code = Internal
    /\ RecordContains(sink[1], req.panic)

----------------------------------------------------------------------------
\* The logger on its own: a caller makes up to MaxCalls calls of Debug, Info, Warn
\* and Error, one after the other.

MaxCalls == 1

ZeroTraceID == "00000000000000000000000000000000"
ZeroSpanID == "0000000000000000"

\* A context as the logger sees it: the span context found in it (the zero one when
\* the context holds no span), valid when both identifiers are non-zero, and whether
\* the context is canceled.
LogContext(hasSpan, traceID, spanID, canceled) ==
    [spanValid |-> hasSpan /\ traceID # ZeroTraceID /\ spanID # ZeroSpanID,
     traceID |-> IF hasSpan THEN traceID ELSE ZeroTraceID,
     spanID |-> IF hasSpan THEN spanID ELSE ZeroSpanID,
     hasSpan |-> hasSpan,
     canceled |-> canceled]

LogContexts ==
    {LogContext(FALSE, ZeroTraceID, ZeroSpanID, c) : c \in BOOLEAN}
        \cup {LogContext(TRUE, t, sp, c) :
                t \in {ZeroTraceID, "4bf92f3577b34da6a3ce929d0e0e4736"},
                sp \in {ZeroSpanID, "00f067aa0ba902b7"},
                c \in BOOLEAN}

\* A nil *AppErr held in an error: not nil as an error, and its Error dereferences it.
NilAppErrPointer == [kind |-> "nilptr"]

\* The errors given to Error, and the attribute lists given to every operation.
LogErrors ==
    {Nil, NilAppErrPointer, SqlErrNoRows, PredefinedErr(NotFound),
     AppErr(1, Nil, Internal, "invalid email (internal)", NilSlice)}

LogArgs == {<<>>, <<SlogString("field", "email"), SlogInt("attempt", 3)>>}

LogMessages == {"Access log", "failed to fetch"}

\* err.Error() panics: a nil error, a nil pointer.
ErrorPanics(err) == err.kind \in {"nil", "nilptr"}

InitLogger ==
    /\ heap = <<>>
    /\ callerSlice = NilSlice
    /\ built = <<>>
    /\ ops = <<>>
    /\ calls = 0
    /\ pc = "caller"
    /\ sink = <<>>
    /\ out = [resp |-> "none", err |-> Nil]
    /\ verdict = NoVerdict
    /\ minLevel \in {LevelDebug, LevelInfo, LevelWarn, LevelError}
    /\ reqCtx = OuterContext
    /\ req = NoRequest
    /\ call = NoCall
    /\ tasks = <<>>

\* What a call leaves in call: its inputs, the length of the sink before it and
\* whether it returned or panicked.
Call(op, level, ctx, msg, err, args, outcome) ==
    [op |-> op, level |-> level, ctx |-> ctx, msg |-> msg, err |-> err, args |-> args,
     before |-> Len(sink), outcome |-> outcome]

LoggerUnchanged ==
    UNCHANGED <<heap, callerSlice, built, ops, pc, out, verdict, minLevel, reqCtx, req,
                tasks>>

LogDebug ==
    /\ pc = "caller" /\ calls < MaxCalls
    /\ \E ctx \in LogContexts, msg \in LogMessages, args \in LogArgs :
          /\ sink' = LoggerLog(sink, minLevel, ctx, LevelDebug, msg, args)
          /\ call' = Call("Debug", LevelDebug, ctx, msg, Nil, args, "returned")
    /\ calls' = calls + 1
    /\ LoggerUnchanged

LogInfo ==
    /\ pc = "caller" /\ calls < MaxCalls
    /\ \E ctx \in LogContexts, msg \in LogMessages, args \in LogArgs :
          /\ sink' = LoggerInfo(sink, minLevel, ctx, msg, args)
          /\ call' = Call("Info", LevelInfo, ctx, msg, Nil, args, "returned")
    /\ calls' = calls + 1
    /\ LoggerUnchanged

LogWarn ==
    /\ pc = "caller" /\ calls < MaxCalls
    /\ \E ctx \in LogContexts, msg \in LogMessages, args \in LogArgs :
          /\ sink' = LoggerLog(sink, minLevel, ctx, LevelWarn, msg, args)
          /\ call' = Call("Warn", LevelWarn, ctx, msg, Nil, args, "returned")
    /\ calls' = calls + 1
    /\ LoggerUnchanged

\* Error: err.Error() is evaluated first; when it panics nothing is written.
LogError ==
    /\ pc = "caller" /\ calls < MaxCalls
    /\ \E ctx \in LogContexts, msg \in LogMessages, args \in LogArgs, err \in LogErrors :
          IF ErrorPanics(err)
          THEN /\ sink' = sink
               /\ call' = Call("Error", LevelError, ctx, msg, err, args, "panicked")
          ELSE /\ sink' = LoggerError(sink, minLevel, ctx, msg, err, args)
               /\ call' = Call("Error", LevelError, ctx, msg, err, args, "returned")
    /\ calls' = calls + 1
    /\ LoggerUnchanged

NextLogger == LogDebug \/ LogInfo \/ LogWarn \/ LogError

SpecLogger == InitLogger /\ [][NextLogger]_vars

\* Properties of the logger.

\* The last call returned and its level passes the minimum level of the handler.
Emitted == call.op # "none" /\ call.outcome = "returned" /\ call.level >= minLevel

\* The trace attributes of a context with a valid span.
TraceAttrs(ctx) ==
    <<SlogString("trace_id", ctx.traceID), SlogString("span_id", ctx.spanID)>>

\* C16: the record a call emits holds, in this order, trace_id and span_id when the
\* context has a valid span and neither otherwise, then for Error the error
\* attribute with the text of the error, then the attributes of the caller in order.
C16_AttributeOrder ==
    Emitted =>
        /\ Len(sink) = call.before + 1
        /\ LET r == sink[Len(sink)]
               valid == /\ call.ctx.hasSpan
                        /\ call.ctx.traceID # ZeroTraceID
                        /\ call.ctx.spanID # ZeroSpanID
           IN /\ r.level = call.level /\ r.msg = call.msg
              /\ r.attrs = (IF valid THEN TraceAttrs(call.ctx) ELSE <<>>)
                         \o (IF call.op = "Error"
                             THEN <<SlogString("error", ErrorText(call.err))>>
                             ELSE <<>>)
                         \o call.args

C16_Witness ==
    /\ Emitted /\ call.op = "Error" /\ call.ctx.spanValid /\ call.args # <<>>
    /\ Len(sink[Len(sink)].attrs) = 5
    /\ sink[Len(sink)].attrs[1].Key = "trace_id"
    /\ sink[Len(sink)].attrs[3].Key = "error"

\* C17 as stated: every call of Debug, Info, Warn and Error returns without
\* panicking, for every context and every error; a context with no valid span only
\* leaves the trace attributes out.
C17_LoggingNeverPanics ==
    call.op # "none" =>
        /\ call.outcome = "returned"
        /\ (Emitted /\ ~call.ctx.spanValid) =>
              \A i \in 1 .. Len(sink[Len(sink)].attrs) :
                  sink[Len(sink)].attrs[i].Key \notin {"trace_id", "span_id"}

----------------------------------------------------------------------------
\* NumTasks requests in flight at once through one logger and one pair of
\* interceptors.  A step of a task is one of: its handler returns, the error
\* interceptor logs, the error interceptor builds the transport error, the
\* access-log interceptor logs.  A record is written to the sink in one piece (the
\* handler of slog writes under its lock), so a log call is one step.

NumTasks == 2

Tasks == 1 .. NumTasks

\* Each request runs under a span of its own.
TraceOf(t) == "4bf92f3577b34da6a3ce929d0e0e473" \o ToString(t)
SpanOf(t) == "00f067aa0ba902b" \o ToString(t)
TaskContext(t) == LogContext(TRUE, TraceOf(t), SpanOf(t), FALSE)

TaskRequest ==
    [chain |-> "server", procedure |-> Procedure, hasHeader |-> TRUE,
     header |-> HeaderSet(EmptyHeader, "User-Agent", "connect-go/1.11.1"), panic |-> ""]

\* What the handler of task t returns, on the heap h: nothing, an error of another
\* package, New with attributes, Wrap of a foreign error.
TaskHandlerResults(h, t) ==
    {[heap |-> h, err |-> Nil], [heap |-> h, err |-> SqlErrNoRows]}
        \cup {New(Variadic(h, xs).heap, t, InvalidArgument, NewMsg, Variadic(h, xs).slice) :
                xs \in LiteralArgs \ {<<>>}}
        \cup {Wrap(h, t, SqlErrNoRows, Internal, WrapMsg, NilSlice)}

InitConc ==
    /\ heap = <<>>
    /\ callerSlice = NilSlice
    /\ built = <<>>
    /\ ops = <<>>
    /\ calls = 0
    /\ pc = "serving"
    /\ sink = <<>>
    /\ out = [resp |-> "none", err |-> Nil]
    /\ verdict = NoVerdict
    /\ minLevel \in {LevelDebug, LevelInfo, LevelWarn, LevelError}
    /\ reqCtx = OuterContext
    /\ req = NoRequest
    /\ call = NoCall
    /\ tasks = [t \in Tasks |->
                  [pc |-> "handler", err |-> Nil, out |-> [resp |-> "none", err |-> Nil]]]

ConcUnchanged ==
    UNCHANGED <<callerSlice, built, ops, calls, pc, out, verdict, minLevel, reqCtx, req,
                call>>

\* The handler of task t returns (resp, err).
TaskHandlerReturns(t) ==
    /\ tasks[t].pc = "handler"
    /\ \E r \in TaskHandlerResults(heap, t) :
          /\ heap' = r.heap
          /\ tasks' = [tasks EXCEPT ![t].pc = "returned", ![t].err = r.err,
                          ![t].out = [resp |-> IF r.err = Nil THEN "response" ELSE "none",
                                      err |-> r.err]]
    /\ UNCHANGED sink
    /\ ConcUnchanged

\* handleError of task t up to its log call.
TaskErrorLog(t) ==
    /\ tasks[t].pc = "returned"
    /\ sink' = handleError(sink, minLevel, TaskContext(t), heap, tasks[t].err).sink
    /\ tasks' = [tasks EXCEPT ![t].pc = "logged"]
    /\ UNCHANGED heap
    /\ ConcUnchanged

\* handleError of task t from there: the transport error and its metadata.
TaskTransportError(t) ==
    /\ tasks[t].pc = "logged"
    /\ tasks' = [tasks EXCEPT
                   ![t].pc = "intercepted",
                   ![t].out.err =
                       handleError(<<>>, minLevel, TaskContext(t), heap, tasks[t].err).err]
    /\ UNCHANGED <<heap, sink>>
    /\ ConcUnchanged

\* The access-log interceptor of task t after its next returned.
TaskAccessLog(t) ==
    /\ tasks[t].pc = "intercepted"
    /\ \E d \in Durations :
          sink' = accessLog(sink, minLevel, TaskContext(t), TaskRequest, tasks[t].out.err, d)
    /\ tasks' = [tasks EXCEPT ![t].pc = "finished"]
    /\ UNCHANGED heap
    /\ ConcUnchanged

NextConc ==
    \E t \in Tasks :
        \/ TaskHandlerReturns(t)
        \/ TaskErrorLog(t)
        \/ TaskTransportError(t)
        \/ TaskAccessLog(t)

SpecConc == InitConc /\ [][NextConc]_vars

\* Properties of the requests in flight at once.

AllFinished == \A t \in Tasks : tasks[t].pc = "finished"

\* The records of the sink written under the span of task t, in order.
RecordsOf(t) == SelectSeq(sink, LAMBDA r : RecordValue(r, "trace_id") = TraceOf(t))

\* What the request of task t gets when it is served alone, its access-log
\* interceptor measuring d milliseconds: the sink and the transport error.
Alone(t, d) ==
    LET e == handleError(<<>>, minLevel, TaskContext(t), heap, tasks[t].err)
    IN [sink |-> accessLog(e.sink, minLevel, TaskContext(t), TaskRequest, e.err, d),
        err |-> e.err]

\* The code the error of task t resolves to, and the counts of its records by level.
TaskCode(t) == IF As(tasks[t].err) = Nil THEN Unknown ELSE As(tasks[t].err).Code

ErrorRecordsOf(t) == Len(SelectSeq(RecordsOf(t), LAMBDA r : r.level = LevelError))
AccessRecordsOf(t) == Len(SelectSeq(RecordsOf(t), LAMBDA r : r.msg = "Access log"))

\* C19 as stated: under every interleaving each request ends with the transport
\* error it gets alone, one error-level record exactly when its error is
\* server-class, and one access record; every record of the sink belongs to one
\* request.
C19_RequestsIndependent ==
    AllFinished =>
        /\ \A t \in Tasks :
              /\ tasks[t].out.err = Alone(t, 0).err
              /\ ErrorRecordsOf(t) =
                    (IF tasks[t].err # Nil /\ IsServerError(TaskCode(t)) THEN 1 ELSE 0)
              /\ AccessRecordsOf(t) = 1
        /\ \A i \in 1 .. Len(sink) :
              \E t \in Tasks : RecordValue(sink[i], "trace_id") = TraceOf(t)

\* C19, amended: the same, with the access record only when the minimum level of
\* the logger admits info records; the records of a request are, in order, the
\* ones it gets alone.
C19_RequestsIndependentUpToLevel ==
    AllFinished =>
        /\ \A t \in Tasks :
              /\ tasks[t].out.err = Alone(t, 0).err
              /\ ErrorRecordsOf(t) =
                    (IF tasks[t].err # Nil /\ IsServerError(TaskCode(t)) THEN 1 ELSE 0)
              /\ AccessRecordsOf(t) = (IF minLevel <= LevelInfo THEN 1 ELSE 0)
              /\ \E d \in Durations : RecordsOf(t) = Alone(t, d).sink
        /\ \A i \in 1 .. Len(sink) :
              \E t \in Tasks : RecordValue(sink[i], "trace_id") = TraceOf(t)

\* Two failing requests whose records interleave in the sink.
C19_Witness ==
    /\ AllFinished /\ Len(sink) = 4
    /\ RecordValue(sink[1], "trace_id") = TraceOf(1) /\ sink[1].level = LevelError
    /\ RecordValue(sink[2], "trace_id") = TraceOf(2) /\ sink[2].level = LevelError
    /\ RecordValue(sink[3], "trace_id") = TraceOf(2) /\ sink[3].msg = "Access log"
    /\ RecordValue(sink[4], "trace_id") = TraceOf(1) /\ sink[4].msg = "Access log"
    /\ tasks[1].out.err.code = Internal /\ tasks[2].out.err.code = Unknown

----------------------------------------------------------------------------
\* C20 as stated: Wrap(e, ...) leaves e unchanged. After a Wrap over an error in
\* which the AppErr e was found, the Attrs of e have the length and the contents
\* they had before the call (Code, Msg and Cause of e are never assigned).
C20_WrapLeavesSourceUnchanged ==
    LET j == Len(built) IN
    (j >= 1 /\ ops[j].op = "Wrap" /\ ops[j].src # Nil) =>
        /\ ops[j].src.Attrs.len = Len(ops[j].srcAttrs)
        /\ Elems(heap, ops[j].src.Attrs) = ops[j].srcAttrs

----------------------------------------------------------------------------
----------------------------------------------------------------------------
\* C22 as stated: the LogValue of every AppErr the handler built is the group of
\* msg, the string of the code, cause (the text of the cause) exactly when the
\* cause is not nil, and an attrs group of the attributes in order without the
\* stack-trace attribute, absent when nothing is left to put in it.
C22_LogValueWithoutStackTrace ==
    \A e \in AppErrsBuilt :
        LET rest == NonStack(Elems(heap, e.Attrs))
        IN LogValue(heap, e).attrs =
              <<SlogString("msg", e.Msg), SlogString("code", CodeString(e.Code))>>
              \o (IF e.Cause # Nil THEN <<SlogString("cause", ErrorText(e.Cause))>>
                  ELSE <<>>)
              \o (IF rest = <<>> THEN <<>> ELSE <<SlogGroup("attrs", rest)>>)

----------------------------------------------------------------------------
\* The text "m (code)" of one layer.
LayerText(msg, code) == msg \o " (" \o CodeString(code) \o ")"

\* The end-to-end case of C23: the handler returned New(InvalidArgument, "invalid
\* email", ...) as it is; nothing is logged and the transport error has that code
\* and a message containing "invalid email (invalid_argument)".
NewInvalidEmailEndToEnd ==
    (Done /\ Len(built) = 1 /\ ops[1].op = "New" /\ ops[1].code = InvalidArgument) =>
        /\ sink = <<>>
        /\ out.err.kind = "connect" /\ out.err.code = InvalidArgument
        /\ Contains(ConnectMessage(out.err), "invalid email (invalid_argument)")

\* C23 as stated: New(code, m) has the text "m (code)"; Wrap of an error that is
\* not itself an AppErr has "m: <its text> (code)"; Wrap of an AppErr a has
\* "m (code): <a's message>", so the layers are listed outermost first; and the
\* end-to-end case above.
C23_MessageComposition ==
    /\ \A j \in 1 .. Len(built) :
          /\ ops[j].op = "New" => built[j].Msg = LayerText(NewMsg, ops[j].code)
          /\ (ops[j].op = "Wrap" /\ built[j - 1].kind # "app") =>
                built[j].Msg = WrapMsg \o ": " \o ErrorText(built[j - 1])
                                   \o " (" \o CodeString(ops[j].code) \o ")"
          /\ (ops[j].op = "Wrap" /\ built[j - 1].kind = "app") =>
                built[j].Msg = LayerText(WrapMsg, ops[j].code) \o ": " \o built[j - 1].Msg
    /\ NewInvalidEmailEndToEnd

\* C23, amended: the form "m: <text> (code)" is that of a source with no AppErr
\* anywhere on its unwrap chain; a source with one, be it the AppErr itself or a
\* fmt.Errorf("%w") around it, gives "m (code): <message of that AppErr>", and the
\* text the fmt.Errorf put in front is not in the message.
C23_MessageCompositionByAs ==
    /\ \A j \in 1 .. Len(built) :
          /\ ops[j].op = "New" => built[j].Msg = LayerText(NewMsg, ops[j].code)
          /\ (ops[j].op = "Wrap" /\ As(built[j - 1]) = Nil) =>
                built[j].Msg = WrapMsg \o ": " \o ErrorText(built[j - 1])
                                   \o " (" \o CodeString(ops[j].code) \o ")"
          /\ (ops[j].op = "Wrap" /\ As(built[j - 1]) # Nil) =>
                built[j].Msg = LayerText(WrapMsg, ops[j].code) \o ": "
                                   \o As(built[j - 1]).Msg
    /\ NewInvalidEmailEndToEnd

C23_Witness ==
    /\ Done /\ Len(built) = 3
    /\ ops[1].op = "New" /\ ops[2].op = "Errorf" /\ ops[3].op = "Wrap"
    /\ ConnectMessage(out.err) =
          "failed to fetch (not_found): invalid email (invalid_argument)"

----------------------------------------------------------------------------
\* The code categories of the doc comment of package codes.
DocumentedClientErrors ==
    {InvalidArgument, NotFound, AlreadyExists, PermissionDenied, Unauthenticated,
     FailedPrecondition, OutOfRange}

DocumentedServerErrors == {Internal, Unavailable, DataLoss, ResourceExhausted, Unimplemented}

\* C24 as stated: whenever the interceptor asked IsServerError about a code, the
\* answer is TRUE for a code documented as a server error and FALSE for a code
\* documented as a client error.
C24_AgreesWithDocumentedCategories ==
    verdict.called =>
        /\ verdict.code \in DocumentedServerErrors => verdict.result
        /\ verdict.code \in DocumentedClientErrors => ~verdict.result

----------------------------------------------------------------------------
\* The RPC handlers of the post and user services over their use cases and
\* repositories, under the error interceptor.  req tells the service, the
\* operation and what the request carries; built holds the errors of the
\* layers: <<the repository's, the use case's, the handler's>>.  The use cases
\* have a delete operation and the handlers have none: a delete request enters
\* at the use case and its error reaches the interceptor as it is.

\* Errors of the database driver other than sql.ErrNoRows.
DriverErr == [kind |-> "foreign", text |-> "dial tcp 10.0.0.5:5432: connection refused",
              inner |-> Nil]
PgForeignKeyViolation == [kind |-> "foreign", text |-> "ERROR: foreign key violation (SQLSTATE=23503)",
                          inner |-> Nil]
PgInvalidUUID == [kind |-> "foreign", text |-> "ERROR: invalid input syntax for type uuid (SQLSTATE=22P02)",
                  inner |-> Nil]

\* The identifier a valid request carries.
EntityID == "7f1c"

\* What a repository method returns on the heap h, its New/Wrap call being the
\* site-th of the request: no error, or one of the errors of its code.
PostRepositoryCreate(h, site) ==
    {[heap |-> h, err |-> Nil],
     New(h, site, FailedPrecondition, "user with ID " \o EntityID \o " does not exist", NilSlice),
     [heap |-> h, err |-> ErrorfW("failed to create post", DriverErr)]}

PostRepositoryGet(h, site) ==
    {[heap |-> h, err |-> Nil],
     Wrap(h, site, SqlErrNoRows, NotFound, "post with ID " \o EntityID \o " not found", NilSlice),
     Wrap(h, site, PgInvalidUUID, InvalidArgument, "invalid UUID format: " \o EntityID, NilSlice),
     [heap |-> h, err |-> ErrorfW("failed to get post", DriverErr)]}

PostRepositoryDelete(h, site) ==
    {[heap |-> h, err |-> Nil],
     [heap |-> h, err |-> ErrorfW("failed to delete post", DriverErr)],
     [heap |-> h, err |-> ErrorfW("failed to get rows affected", DriverErr)],
     New(h, site, NotFound, "post with ID " \o EntityID \o " not found", NilSlice)}

UserRepositoryCreate(h, site) ==
    {[heap |-> h, err |-> Nil],
     [heap |-> h, err |-> ErrorfW("failed to create user", DriverErr)]}

UserRepositoryGet(h, site) ==
    {[heap |-> h, err |-> Nil],
     New(h, site, NotFound, "user with ID " \o EntityID \o " not found", NilSlice),
     [heap |-> h, err |-> ErrorfW("failed to get user", DriverErr)]}

UserRepositoryDelete(h, site) ==
    {[heap |-> h, err |-> Nil],
     [heap |-> h, err |-> ErrorfW("failed to delete user", DriverErr)],
     [heap |-> h, err |-> ErrorfW("failed to get rows affected", DriverErr)],
     New(h, site, NotFound, "user with ID " \o EntityID \o " not found", NilSlice)}

Repository(h, site, service, op) ==
    CASE service = "post" /\ op = "Create" -> PostRepositoryCreate(h, site)
      [] service = "post" /\ op = "Get" -> PostRepositoryGet(h, site)
      [] service = "post" /\ op = "Delete" -> PostRepositoryDelete(h, site)
      [] service = "user" /\ op = "Create" -> UserRepositoryCreate(h, site)
      [] service = "user" /\ op = "Get" -> UserRepositoryGet(h, site)
      [] service = "user" /\ op = "Delete" -> UserRepositoryDelete(h, site)

\* The code, the message and the attributes a use case gives to Wrap.
UseCaseCode(op) == IF op = "Get" THEN NotFound ELSE Internal

UseCaseMsg(service, op) ==
    "failed to " \o (CASE op = "Create" -> "create" [] op = "Get" -> "get"
                       [] op = "Delete" -> "delete") \o " " \o service

UseCaseAttrs(service, op) ==
    IF op = "Create"
    THEN IF service = "post"
         THEN <<SlogString("title", "Hello"), SlogString("user_id", EntityID)>>
         ELSE <<SlogString("name", "Ann"), SlogString("email", "ann@example.com")>>
    ELSE <<SlogString(service \o "_id", EntityID)>>

\* The record a use case writes when a create or a delete went well.
UseCaseSuccess(s, lvl, ctx, service, op) ==
    IF op = "Get" THEN s
    ELSE LoggerInfo(s, lvl, ctx,
                    (IF service = "post" THEN "Post" ELSE "User") \o " "
                        \o (IF op = "Create" THEN "created" ELSE "deleted") \o " successfully",
                    <<SlogString(service \o "_id", EntityID)>>)

\* A use case keeping the code of the repository's error when it has one.
UseCaseKeepsRepositoryCode(s, lvl, ctx, h, service, op, id, repo, site) ==
    IF op # "Create" /\ id = ""
    THEN LET r == New(h, site, InvalidArgument, service \o " ID cannot be empty",
                      NilSlice)
         IN [heap |-> r.heap, err |-> r.err, sink |-> s, repoErr |-> Nil]
    ELSE IF repo.err # Nil
    THEN LET v == Variadic(repo.heap, UseCaseAttrs(service, op))
             code == IF As(repo.err) # Nil THEN As(repo.err).Code ELSE UseCaseCode(op)
             r == Wrap(v.heap, site, repo.err, code, UseCaseMsg(service, op), v.slice)
         IN [heap |-> r.heap, err |-> r.err, sink |-> s, repoErr |-> repo.err]
    ELSE [heap |-> repo.heap, err |-> Nil,
          sink |-> UseCaseSuccess(s, lvl, ctx, service, op), repoErr |-> Nil]

\* A use-case method called on the heap h with id (a create has none to test);
\* an empty id is turned down before the repository is called, otherwise the
\* repository call returns repo.  site is the number of its own New/Wrap call.
UseCase(s, lvl, ctx, h, service, op, id, repo, site) ==
    IF op # "Create" /\ id = ""
    THEN LET r == New(h, site, InvalidArgument, service \o " ID cannot be empty",
                      NilSlice)
         IN [heap |-> r.heap, err |-> r.err, sink |-> s, repoErr |-> Nil]
    ELSE IF repo.err # Nil
    THEN LET v == Variadic(repo.heap, UseCaseAttrs(service, op))
             r == Wrap(v.heap, site, repo.err, UseCaseCode(op), UseCaseMsg(service, op),
                       v.slice)
         IN [heap |-> r.heap, err |-> r.err, sink |-> s, repoErr |-> repo.err]
    ELSE [heap |-> repo.heap, err |-> Nil,
          sink |-> UseCaseSuccess(s, lvl, ctx, service, op), repoErr |-> Nil]

\* The tests a handler makes before it calls the use case: the error it returns,
\* Nil when the request passes.
HandlerValidation(service, op, input) ==
    IF input = "nil message"
    THEN ConnectNewError(InvalidArgument, ErrorfText("request cannot be nil"))
    ELSE IF input = "missing field"
    THEN ConnectNewError(InvalidArgument,
                         ErrorfText(CASE op = "Get" -> service \o "_id is required"
                                      [] service = "post" -> "title is required"
                                      [] OTHER -> "user is required"))
    ELSE Nil

\* Requests: to a handler (get, create) with a message that is nil, lacks its
\* field or is complete; to the delete of a use case with an empty or a full id.
RpcRequests ==
    {[chain |-> "rpc", service |-> s, op |-> o, input |-> i] :
        s \in {"post", "user"}, o \in {"Get", "Create"},
        i \in {"nil message", "missing field", "valid"}}
      \cup {[chain |-> "rpc", service |-> s, op |-> "Delete", input |-> i] :
              s \in {"post", "user"}, i \in {"missing field", "valid"}}

InitRpc ==
    /\ heap = <<>>
    /\ callerSlice = NilSlice
    /\ built = <<>>
    /\ ops = <<>>
    /\ calls = 0
    /\ pc = "handler"
    /\ sink = <<>>
    /\ out = [resp |-> "none", err |-> Nil]
    /\ verdict = NoVerdict
    /\ minLevel \in {LevelDebug, LevelInfo, LevelWarn, LevelError}
    /\ reqCtx \in Contexts
    /\ req \in RpcRequests
    /\ call = NoCall
    /\ tasks = <<>>

\* A handler turns the request down.
RpcHandlerRejects ==
    /\ pc = "handler" /\ req.op # "Delete" /\ req.input # "valid"
    /\ built' = <<Nil, Nil, HandlerValidation(req.service, req.op, req.input)>>
    /\ out' = [resp |-> "none", err |-> built'[3]]
    /\ pc' = "returned"
    /\ UNCHANGED <<heap, callerSlice, ops, calls, sink, verdict, minLevel, reqCtx, req,
                   call, tasks>>

\* A handler calls its use case and returns what it got: the response made of the
\* entity, or the error as it is.  The use case calls the repository once.
RpcHandlerCallsUseCase ==
    /\ pc = "handler" /\ (req.op = "Delete" \/ req.input = "valid")
    /\ \E repo \in Repository(heap, 1, req.service, req.op) :
          LET id == IF req.input = "valid" THEN EntityID ELSE ""
              uc == UseCase(sink, minLevel, reqCtx, heap, req.service, req.op, id, repo, 2)
          IN /\ heap' = uc.heap
             /\ sink' = uc.sink
             /\ built' = <<uc.repoErr, uc.err, uc.err>>
             /\ out' = [resp |-> IF uc.err = Nil THEN "response" ELSE "none",
                        err |-> uc.err]
    /\ calls' = 2
    /\ pc' = "returned"
    /\ UNCHANGED <<callerSlice, ops, verdict, minLevel, reqCtx, req, call, tasks>>

\* The error interceptor around the handler.
RpcErrorInterceptor ==
    /\ pc = "returned"
    /\ LET r == handleError(sink, minLevel, reqCtx, heap, built[3])
       IN /\ sink' = r.sink
          /\ verdict' = r.verdict
          /\ out' = [out EXCEPT !.err = r.err]
    /\ pc' = "done"
    /\ UNCHANGED <<heap, callerSlice, built, ops, calls, minLevel, reqCtx, req, call, tasks>>

NextRpc ==
    \/ RpcHandlerRejects
    \/ RpcHandlerCallsUseCase
    \/ RpcErrorInterceptor

SpecRpc == InitRpc /\ [][NextRpc]_vars

\* Properties of the handlers.

\* The error the handler returned into the chain.
HandlerErr == built[3]

\* C25 as stated: every error a user or post handler returns into the chain has an
\* AppErr on its unwrap chain and is no transport error.
C25_HandlersReturnAppErrs ==
    (pc \in {"returned", "done"} /\ req.op # "Delete" /\ HandlerErr # Nil) =>
        /\ As(HandlerErr) # Nil
        /\ HandlerErr.kind # "connect"

----------------------------------------------------------------------------
\* The records the access-log interceptor wrote.
AccessRecords == SelectSeq(sink, LAMBDA r : r.msg = "Access log")

\* C26 as stated: a request of the server chain whose handler panicked and was
\* recovered has exactly one access record, the logger admitting info records.
C26_AccessRecordForPanickingRequest ==
    (Finished /\ req.chain = "server" /\ req.panic # "" /\ minLevel <= LevelInfo) =>
        Len(AccessRecords) = 1

----------------------------------------------------------------------------
\* The codes errors.Is sees in the j-th layer's error when the chain started with
\* New or with an error of another package: the layer's own code and, under
\* Wraps, the code of the AppErr New created at the root.
VisibleCodes(j) ==
    {ops[j].code} \cup (IF j > 1 /\ ops[1].op = "New" THEN {ops[1].code} ELSE {})

----------------------------------------------------------------------------
\* C28 as stated: the Attrs of an error New made, or Wrap made of an error that
\* holds no AppErr, stay what they were when it was made, the attributes given
\* followed by the stack trace of that call, whatever New and Wrap calls come
\* later with the same slice.
C28_AttrsNeverChange ==
    \A i \in 1 .. Len(built) :
        (ops[i].op = "New" \/ (ops[i].op = "Wrap" /\ ops[i].src = Nil)) =>
            Elems(heap, built[i].Attrs) = ops[i].args \o <<withStack(built[i].ptr)>>

----------------------------------------------------------------------------
\* App.Shutdown (internal/di): the server is stopped, then the closers are closed.
\* req holds the App (whether its server was started, its list of closers), call
\* the locals of Shutdown (errs and the index of the loop), ops the calls made so
\* far, each with its outcome.

MaxClosers == 2

\* The closers newApp puts in the list, the database first, and any further one.
CloserName(i) == IF i = 1 THEN "db" ELSE IF i = 2 THEN "telemetry" ELSE "closer"

Apps ==
    {[chain |-> "shutdown", started |-> st, closers |-> [i \in 1 .. n |-> CloserName(i)]] :
        st \in BOOLEAN, n \in 0 .. MaxClosers}

\* errors.Join that keeps the first error only.
JoinKeepsFirst(errs, e) ==
    IF errs = Nil THEN [kind |-> "join", errs |-> <<e>>] ELSE errs

\* errors.Join(errs, e) for a non-nil e: a joined error of the non-nil ones.
Join(errs, e) ==
    [kind |-> "join", errs |-> IF errs = Nil THEN <<e>> ELSE <<errs, e>>]

\* The errors a joined error was made of, in order.
RECURSIVE Joined(_)
Joined(e) ==
    IF e = Nil THEN <<>>
    ELSE IF e.kind # "join" THEN <<e>>
    ELSE IF Len(e.errs) = 1 THEN Joined(e.errs[1])
    ELSE Joined(e.errs[1]) \o Joined(e.errs[2])

\* What the server and a closer fail with.
StopErr == ErrorfText("context deadline exceeded")
CloseErr(name) == ErrorfText(name \o ": connection already closed")

InitShutdown ==
    /\ heap = <<>>
    /\ callerSlice = NilSlice
    /\ built = <<>>
    /\ ops = <<>>
    /\ calls = 0
    /\ pc = "stop"
    /\ sink = <<>>
    /\ out = [resp |-> "none", err |-> Nil]
    /\ verdict = NoVerdict
    /\ minLevel \in {LevelDebug, LevelInfo, LevelWarn, LevelError}
    /\ reqCtx = OuterContext
    /\ req \in Apps
    /\ call = [op |-> "Shutdown", errs |-> Nil, i |-> 1]
    /\ tasks = <<>>

\* a.Server.Stop(): a started server writes an info record and shuts down, which
\* may fail; a server never started returns nil.
ShutdownStop ==
    /\ pc = "stop"
    /\ \E failed \in (IF req.started THEN BOOLEAN ELSE {FALSE}) :
          /\ ops' = Append(ops, [call |-> "Stop", on |-> "server", failed |-> failed])
          /\ call' = [call EXCEPT !.errs =
                        IF failed
                        THEN Join(@, ErrorfW("failed to graceful shutdown server", StopErr))
                        ELSE @]
    /\ sink' = (IF req.started
                THEN LoggerInfo(sink, minLevel, reqCtx,
                                "Shutting down Connect server gracefully...",
                                <<Attr("timeout", [kind |-> "Duration", str |-> "30s"])>>)
                ELSE sink)
    /\ pc' = "close"
    /\ UNCHANGED <<heap, callerSlice, built, calls, out, verdict, minLevel, reqCtx, req,
                   tasks>>

\* One turn of the loop over a.Closers: closer.Close(), which may fail; the
\* database writes an info record first.
ShutdownClose ==
    /\ pc = "close" /\ call.i <= Len(req.closers)
    /\ LET name == req.closers[call.i] IN
       /\ \E failed \in BOOLEAN :
             /\ ops' = Append(ops, [call |-> "Close", on |-> name, failed |-> failed])
             /\ call' = [call EXCEPT
                           !.errs = IF failed
                                    THEN Join(@, ErrorfW("failed to close system resource",
                                                         CloseErr(name)))
                                    ELSE @,
                           !.i = @ + 1]
       /\ sink' = (IF name = "db"
                   THEN LoggerInfo(sink, minLevel, reqCtx, "Closing database connection", <<>>)
                   ELSE sink)
    /\ UNCHANGED <<heap, callerSlice, built, calls, pc, out, verdict, minLevel, reqCtx, req,
                   tasks>>

\* After the loop: return errs, nil when nothing failed.
ShutdownReturn ==
    /\ pc = "close" /\ call.i > Len(req.closers)
    /\ out' = [resp |-> "none", err |-> call.errs]
    /\ pc' = "done"
    /\ UNCHANGED <<heap, callerSlice, built, ops, calls, sink, verdict, minLevel, reqCtx,
                   req, call, tasks>>

NextShutdown ==
    \/ ShutdownStop
    \/ ShutdownClose
    \/ ShutdownReturn

SpecShutdown == InitShutdown /\ [][NextShutdown]_vars

\* The text Shutdown wraps the failure of a call in.
FailureText(c) ==
    IF c.call = "Stop" THEN "failed to graceful shutdown server: " \o ErrorText(StopErr)
    ELSE "failed to close system resource: " \o ErrorText(CloseErr(c.on))

\* C29: Stop is the first call and comes before every Close; when Shutdown has
\* returned, Close was called exactly once on every closer, in list order,
\* whatever failed before; the error returned is non-nil exactly when some call
\* failed, and it joins the failures of all the failed calls in the order of the calls.
C29_ShutdownClosesEverything ==
    /\ \A k \in 1 .. Len(ops) : (ops[k].call = "Stop") <=> (k = 1)
    /\ pc = "done" =>
          /\ Len(ops) = 1 + Len(req.closers)
          /\ \A i \in 1 .. Len(req.closers) :
                ops[i + 1].call = "Close" /\ ops[i + 1].on = req.closers[i]
          /\ (out.err # Nil) <=> (\E k \in 1 .. Len(ops) : ops[k].failed)
          /\ LET failures == SelectSeq(ops, LAMBDA c : c.failed)
                 joined == Joined(out.err)
             IN /\ Len(joined) = Len(failures)
                /\ \A k \in 1 .. Len(failures) : ErrorText(joined[k]) = FailureText(failures[k])

C29_Witness ==
    /\ pc = "done" /\ Len(req.closers) = 2
    /\ ops[1].failed /\ ops[2].failed /\ ~ops[3].failed
    /\ Len(Joined(out.err)) = 2

----------------------------------------------------------------------------
\* The error of the repository and the error-level records of the sink.
RepositoryErr == built[1]

ErrorRecords == SelectSeq(sink, LAMBDA r : r.level = LevelError)

====
